---------------------------- MODULE Spec2Model ----------------------------
(***************************************************************************)
(* The `@supports` condition of src/rules/supports.rs: the recursive       *)
(* descent parser, the and/or combinators, the prefix expander and the     *)
(* precedence printer.                                                     *)
(*                                                                         *)
(* Source text is a sequence of tokens (whitespace and comments, which     *)
(* every cssparser call used here skips, are left out).  Blocks are not    *)
(* pre-nested: "(" / "selector(" / "fn(" open a block and ")" closes the   *)
(* innermost open one, and the end of input closes every open block, as    *)
(* the tokenizer does.  "]" stands for the error tokens of                 *)
(* expect_no_error_token (a bad string, a bad url, a stray closing         *)
(* bracket).  A slice of the source is the sub-sequence of its tokens.     *)
(***************************************************************************)
EXTENDS Naturals, Sequences, FiniteSets

VARIABLES
    input,      \* the source text being read (token sequence)
    pc,         \* where the pipeline stands
    res,        \* the Result of the last parse: [ok, cond, pos]
    cond,       \* the SupportsCondition owned by the rule
    prev,       \* cond before the last call that mutated it
    call,       \* the last call made on cond: [op, b] or [op, targets]
    args,       \* the conditions passed to and()/or() so far
    dest,       \* what the Printer has written
    n           \* chunks read so far, then calls made on cond

vars == <<input, pc, res, cond, prev, call, args, dest, n>>

----------------------------------------------------------------------------
(* Bounds *)

MaxChunks == 4

MaxCalls == 2

----------------------------------------------------------------------------
(* Tokens *)

OpenParen == "("

CloseParen == ")"

SelectorFn == "selector("

OtherFn == "fn("

ErrorToken == "]"

Colon == ":"

Idents == {"not", "and", "or", "a", "b", "c", "-webkit-b", "-moz-b"}

IsFunction(t) == t \in {SelectorFn, OtherFn}

IsOpen(t) == t = OpenParen \/ IsFunction(t)

NoCond == [tag |-> "none"]

Err == [ok |-> FALSE, cond |-> NoCond, pos |-> 0]

Ok(c, p) == [ok |-> TRUE, cond |-> c, pos |-> p]

(* SupportsCondition, lines 87-115 *)
Not(c) == [tag |-> "Not", arg |-> c]

And(items) == [tag |-> "And", items |-> items]

Or(items) == [tag |-> "Or", items |-> items]

Declaration(property_id, value) ==
    [tag |-> "Declaration", property_id |-> property_id, value |-> value]

Selector(s) == [tag |-> "Selector", text |-> s]

Unknown(s) == [tag |-> "Unknown", text |-> s]

IsList(c) == c.tag \in {"And", "Or"}

----------------------------------------------------------------------------
(* The token source (cssparser::Parser) *)

RECURSIVE CloseFrom(_, _, _)
(* The index of the token that closes a block, scanning from i with `depth` *)
(* blocks open; Len(s)+1 when the input ends first.                        *)
CloseFrom(s, i, depth) ==
    IF i > Len(s) THEN Len(s) + 1
    ELSE IF IsOpen(s[i]) THEN CloseFrom(s, i + 1, depth + 1)
    ELSE IF s[i] = CloseParen
         THEN IF depth = 1 THEN i ELSE CloseFrom(s, i + 1, depth - 1)
    ELSE CloseFrom(s, i + 1, depth)

(* The end of the block opened by the token at p. *)
BlockEnd(s, p) == CloseFrom(s, p + 1, 1)

(* The cursor after parse_nested_block on a block ending at m. *)
After(s, m) == IF m > Len(s) THEN Len(s) + 1 ELSE m + 1

(* Parser::expect_no_error_token over the tokens from..to-1. *)
expect_no_error_token(s, from, to) ==
    \A i \in from..(to - 1) : s[i] # ErrorToken

(* Parser::slice_from: the source from `from` up to the cursor `to`. *)
slice(s, from, to) == SubSeq(s, from, to - 1)


----------------------------------------------------------------------------
(* PropertyId and VendorPrefix (crate::properties, crate::vendor_prefix)   *)

VendorPrefixes == {"None", "WebKit", "Moz"}

(* The order in which a prefix set is iterated. *)
PrefixOrder == <<"WebKit", "Moz", "None">>

(* PropertyId::parse: "b" is a property that takes vendor prefixes, any    *)
(* other name is one that carries no prefix field.                         *)
PropertyIdParse(ident) ==
    CASE ident = "b" -> [name |-> "b", prefix |-> {"None"}]
      [] ident = "-webkit-b" -> [name |-> "b", prefix |-> {"WebKit"}]
      [] ident = "-moz-b" -> [name |-> "b", prefix |-> {"Moz"}]
      [] OTHER -> [name |-> ident, prefix |-> {}]

(* VendorPrefix::to_css followed by serialize_name: one ident token. *)
PrefixedName(p, name) ==
    CASE p = "WebKit" /\ name = "b" -> "-webkit-b"
      [] p = "Moz" /\ name = "b" -> "-moz-b"
      [] OTHER -> name

(* VendorPrefix::or_none *)
or_none(prefix) == IF prefix = {} THEN {"None"} ELSE prefix

Targets == {"old", "older", "new"}

(* Feature::prefixes_for(targets) for the prefixable property. *)
PrefixesFor(targets) ==
    CASE targets = "old" -> {"WebKit", "None"}
      [] targets = "older" -> {"WebKit", "Moz", "None"}
      [] OTHER -> {"None"}

(* PropertyId::set_prefixes_for_targets *)
PropertyIdSetPrefixes(property_id, targets) ==
    IF property_id.name = "b"
    THEN [property_id EXCEPT !.prefix = PrefixesFor(targets)]
    ELSE property_id

----------------------------------------------------------------------------
(* The grammar parser, lines 159-267 *)

(* parse_declaration, lines 255-267; the block it reads ends at lim. *)
parse_declaration(s, pos, lim) ==
    IF /\ pos < lim
       /\ s[pos] \in Idents
       /\ pos + 1 < lim
       /\ s[pos + 1] = Colon
       /\ expect_no_error_token(s, pos + 2, lim)
    THEN Ok(Declaration(PropertyIdParse(s[pos]), slice(s, pos + 2, lim)), lim)
    ELSE Err

(* match_ignore_ascii_case, lines 174-180 *)
found_type(t) == IF t = "and" THEN 1 ELSE 2

(* keyword_accepted without the check against expected_type. *)
keyword_accepted_AnyKind(s, pos, lim, expected_type) ==
    /\ pos < lim
    /\ s[pos] \in {"and", "or"}

(* Whether the closure of lines 171-191 gets past its keyword checks. *)
keyword_accepted(s, pos, lim, expected_type) ==
    /\ pos < lim
    /\ s[pos] \in {"and", "or"}
    /\ (expected_type = 0 \/ found_type(s[pos]) = expected_type)

(* The final match, lines 203-207. *)
finish(expected_type, conditions, in_parens) ==
    CASE expected_type = 1 -> And(conditions)
      [] expected_type = 2 -> Or(conditions)
      [] OTHER -> in_parens

(* lines 193-197 *)
push_condition(conditions, in_parens, condition) ==
    (IF conditions = <<>> THEN <<in_parens>> ELSE conditions) \o <<condition>>

RECURSIVE parse(_, _, _)
RECURSIVE parse_in_parens(_, _, _)
RECURSIVE parse_operands(_, _, _, _, _, _)

(* The loop of lines 170-201 and the final match.  expected_type is 0 for  *)
(* None.  The closure assigns expected_type before it reads the operand,   *)
(* and try_parse rewinds the cursor only.                                  *)
parse_operands(s, pos, lim, in_parens, expected_type, conditions) ==
    LET accepted == keyword_accepted(s, pos, lim, expected_type)
        fixed == IF accepted THEN found_type(s[pos]) ELSE expected_type
        condition == parse_in_parens(s, pos + 1, lim)
    IN  IF accepted /\ condition.ok
        THEN parse_operands(s, condition.pos, lim, in_parens, fixed,
                            push_condition(conditions, in_parens, condition.cond))
        ELSE Ok(finish(fixed, conditions, in_parens), pos)

(* SupportsCondition::parse, lines 160-208, on the block ending at lim. *)
parse(s, pos, lim) ==
    IF pos < lim /\ s[pos] = "not"
    THEN LET in_parens == parse_in_parens(s, pos + 1, lim)
         IN  IF in_parens.ok THEN Ok(Not(in_parens.cond), in_parens.pos) ELSE Err
    ELSE LET in_parens == parse_in_parens(s, pos, lim)
         IN  IF in_parens.ok
             THEN parse_operands(s, in_parens.pos, lim, in_parens.cond, 0, <<>>)
             ELSE Err

(* parse_unknown with the slice taken from after the opening token. *)
parse_unknown_InnerSlice(s, pos, m) ==
    IF expect_no_error_token(s, pos + 1, m)
    THEN Ok(Unknown(slice(s, pos + 1, m)), After(s, m))
    ELSE Err

(* The fall-back of lines 251-252. *)
parse_unknown(s, pos, m) ==
    IF expect_no_error_token(s, pos + 1, m)
    THEN Ok(Unknown(slice(s, pos, After(s, m))), After(s, m))
    ELSE Err

(* The selector arm, lines 219-230. *)
parse_selector(s, pos, m) ==
    IF expect_no_error_token(s, pos + 1, m)
    THEN Ok(Selector(slice(s, pos + 1, m)), After(s, m))
    ELSE Err

(* The closure of lines 236-242 under parse_nested_block, which fails      *)
(* unless the closure leaves the block exhausted.                          *)
parse_paren_block(s, pos, m) ==
    LET condition == parse(s, pos + 1, m)
    IN  IF condition.ok
        THEN IF condition.pos = m THEN Ok(condition.cond, After(s, m)) ELSE Err
        ELSE LET d == parse_declaration(s, pos + 1, m)
             IN  IF d.ok THEN Ok(d.cond, After(s, m)) ELSE Err

(* parse_in_parens, lines 212-253 *)
parse_in_parens(s, pos, lim) ==
    IF pos >= lim THEN Err
    ELSE LET m == BlockEnd(s, pos)
         IN  IF IsFunction(s[pos])
             THEN LET r == IF s[pos] = SelectorFn THEN parse_selector(s, pos, m) ELSE Err
                  IN  IF r.ok THEN r ELSE parse_unknown(s, pos, m)
             ELSE IF s[pos] = OpenParen
             THEN LET r == parse_paren_block(s, pos, m)
                  IN  IF r.ok THEN r ELSE parse_unknown(s, pos, m)
             ELSE Err

(* A parse of the whole of s from its start. *)
Parse(s) == parse(s, 1, Len(s) + 1)

ParseInParens(s) == parse_in_parens(s, 1, Len(s) + 1)

----------------------------------------------------------------------------
(* The combinators, lines 119-138 *)

contains(a, b) == \E i \in 1..Len(a) : a[i] = b

(* and() without the look-up in the list. *)
and_AlwaysPush(self, b) ==
    IF self.tag = "And"
    THEN And(Append(self.items, b))
    ELSE IF self # b THEN And(<<self, b>>) ELSE self

and(self, b) ==
    IF self.tag = "And"
    THEN IF ~contains(self.items, b) THEN And(Append(self.items, b)) ELSE self
    ELSE IF self # b THEN And(<<self, b>>) ELSE self

or(self, b) ==
    IF self.tag = "Or"
    THEN IF ~contains(self.items, b) THEN Or(Append(self.items, b)) ELSE self
    ELSE IF self # b THEN Or(<<self, b>>) ELSE self

(* The expander without the walk into Not, And and Or. *)
set_prefixes_for_targets_TopOnly(self, targets) ==
    IF /\ self.tag = "Declaration"
       /\ (self.property_id.prefix = {} \/ "None" \in self.property_id.prefix)
    THEN [self EXCEPT !.property_id =
             PropertyIdSetPrefixes(self.property_id, targets)]
    ELSE self

(* The prefix expander, lines 140-156 *)
RECURSIVE set_prefixes_for_targets(_, _)
set_prefixes_for_targets(self, targets) ==
    CASE self.tag = "Not" -> Not(set_prefixes_for_targets(self.arg, targets))
      [] IsList(self) ->
           [self EXCEPT !.items =
               [i \in 1..Len(self.items) |->
                   set_prefixes_for_targets(self.items[i], targets)]]
      [] self.tag = "Declaration" ->
           IF self.property_id.prefix = {} \/ "None" \in self.property_id.prefix
           THEN [self EXCEPT !.property_id =
                    PropertyIdSetPrefixes(self.property_id, targets)]
           ELSE self
      [] OTHER -> self

----------------------------------------------------------------------------
(* The precedence printer, lines 269-363 *)

(* needs_parens asking for parentheses around every nested list. *)
needs_parens_EveryList(self, parent) ==
    self.tag \in {"Not", "And", "Or"}

needs_parens(self, parent) ==
    CASE self.tag = "Not" -> TRUE
      [] self.tag = "And" -> parent.tag # "And"
      [] self.tag = "Or" -> parent.tag # "Or"
      [] OTHER -> FALSE

(* lines 278-290, given what to_css writes for self *)
with_parens_if_needed(written, np) ==
    IF np THEN <<OpenParen>> \o written \o <<CloseParen>> ELSE written

(* The prefixes of a set in iteration order. *)
RECURSIVE PrefixSeq(_, _)
PrefixSeq(prefix, i) ==
    IF i > Len(PrefixOrder) THEN <<>>
    ELSE (IF PrefixOrder[i] \in prefix THEN <<PrefixOrder[i]>> ELSE <<>>)
         \o PrefixSeq(prefix, i + 1)

(* The Declaration arm, lines 327-355 *)
RECURSIVE declaration_clauses(_, _, _, _)
declaration_clauses(ps, i, name, value) ==
    IF i > Len(ps) THEN <<>>
    ELSE (IF i = 1 THEN <<>> ELSE <<CloseParen, "or", OpenParen>>)
         \o <<PrefixedName(ps[i], name), Colon>> \o value
         \o declaration_clauses(ps, i + 1, name, value)

declaration_to_css(property_id, value) ==
    LET prefix == or_none(property_id.prefix)
        extra == prefix # {"None"}
    IN  <<OpenParen>>
        \o (IF extra THEN <<OpenParen>> ELSE <<>>)
        \o declaration_clauses(PrefixSeq(prefix, 1), 1, property_id.name, value)
        \o (IF extra THEN <<CloseParen>> ELSE <<>>)
        \o <<CloseParen>>

RECURSIVE to_css(_)
RECURSIVE list_to_css(_, _, _)

(* to_css_with_parens_if_needed, lines 278-290 *)
to_css_with_parens_if_needed(self, np) == with_parens_if_needed(to_css(self), np)

(* The And and Or arms, lines 303-326; sep is "and" or "or". *)
list_to_css(self, i, sep) ==
    IF i > Len(self.items) THEN <<>>
    ELSE (IF i = 1 THEN <<>> ELSE <<sep>>)
         \o to_css_with_parens_if_needed(self.items[i],
                                         needs_parens(self.items[i], self))
         \o list_to_css(self, i + 1, sep)

(* ToCss for SupportsCondition, lines 294-363 *)
to_css(self) ==
    CASE self.tag = "Not" ->
           <<"not">> \o to_css_with_parens_if_needed(self.arg,
                                                     needs_parens(self.arg, self))
      [] self.tag = "And" -> list_to_css(self, 1, "and")
      [] self.tag = "Or" -> list_to_css(self, 1, "or")
      [] self.tag = "Declaration" ->
           declaration_to_css(self.property_id, self.value)
      [] self.tag = "Selector" -> <<SelectorFn>> \o self.text \o <<CloseParen>>
      [] OTHER -> self.text


----------------------------------------------------------------------------
(* Source texts *)

D1 == <<"(", "a", ":", "1", ")">>

D2 == <<"(", "b", ":", "2", ")">>

DW == <<"(", "-webkit-b", ":", "2", ")">>

D3 == <<"(", "c", ":", "3", ")">>

(* The spec's "(a: 1) and (b: 2) or (c: 3)". *)
Mixed == D1 \o <<"and">> \o D2 \o <<"or">> \o D3

SelA == <<"selector(", "a", ")">>

(* The spec's "(100px: 100px)": balanced, but no condition or declaration. *)
U1 == <<"(", "1", ":", "1", ")">>

Paren(s) == <<"(">> \o s \o <<")">>

(* What the lexer can hand to SupportsCondition::parse, piece by piece. *)
Chunks ==
    { D1, D2, Paren(D1 \o <<"and">> \o D2), Paren(D1 \o <<"or">> \o D2),
      <<"and">>, <<"or">>, <<"not">>, <<"(">>, <<")">>, <<"]">> }

(* What the lexer can hand to parse_in_parens, piece by piece. *)
BlockChunks ==
    { <<"(">>, <<")">>, <<"]">>, <<"selector(">>, <<"fn(">>, <<"not">>,
      <<"a", ":", "1">>, <<"1", ":", "1">>, D1 }

(* Preludes of @supports rules that parse to the end. *)
Samples ==
    { D1, D2, DW, SelA, U1,
      <<"not">> \o D1,
      <<"not">> \o SelA,
      <<"not">> \o Paren(D1 \o <<"and">> \o D2),
      <<"not">> \o Paren(<<"not">> \o D2),
      D1 \o <<"and">> \o D2,
      D1 \o <<"or">> \o D2,
      Paren(D1 \o <<"and">> \o D2) \o <<"and">> \o SelA,
      Paren(D1 \o <<"or">> \o D2) \o <<"or">> \o SelA,
      Paren(D1 \o <<"or">> \o D2) \o <<"and">> \o Paren(<<"not">> \o D1),
      Paren(D1 \o <<"and">> \o D2) \o <<"or">> \o U1,
      DW \o <<"or">> \o D2,
      D1 \o <<"and">> \o D1 }

(* Conditions another rule hands to and()/or(). *)
ArgSources == { D1, D1 \o <<"or">> \o D2, D2 \o <<"and">> \o D2 }

----------------------------------------------------------------------------
(* Actions *)

NoCall == [op |-> "none"]

Start(s, at) ==
    /\ input = s
    /\ pc = at
    /\ res = IF at = "parsed" THEN Parse(s) ELSE Err
    /\ cond = IF at = "parsed" THEN Parse(s).cond ELSE NoCond
    /\ prev = NoCond
    /\ call = NoCall
    /\ args = {}
    /\ dest = <<>>
    /\ n = 0

(* The lexer delivers the next piece of the source. *)
Feed(ch) ==
    /\ pc = "lex"
    /\ n < MaxChunks
    /\ input' = input \o ch
    /\ n' = n + 1
    /\ UNCHANGED <<pc, res, cond, prev, call, args, dest>>

(* SupportsCondition::parse on the source. *)
DoParse ==
    /\ pc = "lex"
    /\ res' = Parse(input)
    /\ pc' = IF res'.ok THEN "parsed" ELSE "error"
    /\ cond' = res'.cond
    /\ n' = 0
    /\ UNCHANGED <<input, prev, call, args, dest>>

(* SupportsCondition::parse_in_parens on the source. *)
DoParseInParens ==
    /\ pc = "lex"
    /\ res' = ParseInParens(input)
    /\ pc' = IF res'.ok THEN "in_parens" ELSE "error"
    /\ cond' = res'.cond
    /\ n' = 0
    /\ UNCHANGED <<input, prev, call, args, dest>>

(* self.and(b) *)
CallAnd(b) ==
    /\ pc = "parsed"
    /\ n < MaxCalls
    /\ prev' = cond
    /\ cond' = and(cond, b)
    /\ call' = [op |-> "and", b |-> b]
    /\ args' = args \cup {b}
    /\ n' = n + 1
    /\ UNCHANGED <<input, pc, res, dest>>

(* self.or(b) *)
CallOr(b) ==
    /\ pc = "parsed"
    /\ n < MaxCalls
    /\ prev' = cond
    /\ cond' = or(cond, b)
    /\ call' = [op |-> "or", b |-> b]
    /\ args' = args \cup {b}
    /\ n' = n + 1
    /\ UNCHANGED <<input, pc, res, dest>>

(* SupportsRule::minify with context.targets = Some(targets), lines 38-48 *)
Minify(targets) ==
    /\ pc \in {"parsed", "minified"}
    /\ n < MaxCalls
    /\ prev' = cond
    /\ cond' = set_prefixes_for_targets(cond, targets)
    /\ call' = [op |-> "minify", targets |-> targets]
    /\ pc' = "minified"
    /\ n' = n + 1
    /\ UNCHANGED <<input, res, args, dest>>

(* self.condition.to_css(dest), line 63 *)
DoToCss ==
    /\ pc \in {"parsed", "minified"}
    /\ dest' = to_css(cond)
    /\ pc' = "printed"
    /\ UNCHANGED <<input, res, cond, prev, call, args, n>>

(* SupportsCondition::parse on what was printed. *)
DoReparse ==
    /\ pc = "printed"
    /\ res' = Parse(dest)
    /\ pc' = "reparsed"
    /\ UNCHANGED <<input, cond, prev, call, args, dest, n>>

Args == {Parse(s).cond : s \in ArgSources}

----------------------------------------------------------------------------
(* Parse, print, parse again. *)

Init == \E s \in {<<>>, Mixed} : Start(s, "lex")

Next ==
    \/ \E ch \in Chunks : Feed(ch)
    \/ DoParse
    \/ DoToCss
    \/ DoReparse

Spec == Init /\ [][Next]_vars

(* parse_in_parens on its own. *)

NextInParens ==
    \/ \E ch \in BlockChunks : Feed(ch)
    \/ DoParseInParens

SpecInParens == Init /\ [][NextInParens]_vars

(* A parsed rule: combined with others, minified, printed. *)

InitRule == \E s \in Samples : Start(s, "parsed")

NextRule ==
    \/ \E b \in Args \cup {cond} : CallAnd(b)
    \/ \E b \in Args \cup {cond} : CallOr(b)
    \/ \E targets \in Targets : Minify(targets)
    \/ DoToCss

SpecRule == InitRule /\ [][NextRule]_vars


----------------------------------------------------------------------------
(* Properties *)

RECURSIVE Subtrees(_)
(* Every condition inside c, c included. *)
Subtrees(c) ==
    {c} \cup
    CASE c.tag = "Not" -> Subtrees(c.arg)
      [] IsList(c) -> UNION {Subtrees(c.items[i]) : i \in 1..Len(c.items)}
      [] OTHER -> {}

Parsed == pc = "parsed" /\ call = NoCall

(* C1: round trip: parsing what to_css prints for a parsed condition      *)
(* consumes the whole text and yields a structurally equal condition.      *)
C1_RoundTrip ==
    pc = "reparsed" =>
        /\ res.ok
        /\ res.pos = Len(dest) + 1
        /\ res.cond = cond

(* C2: list minimum size: every And/Or that parse returns, and every one   *)
(* in the receiver after and()/or() calls, has at least two members.       *)
C2_ListMinSize ==
    pc = "parsed" =>
        \A c \in Subtrees(cond) : IsList(c) => Len(c.items) >= 2

(* C9: a failed attempt to read `keyword operand` has no effect: parse     *)
(* stops with the cursor after the last accepted operand and returns what  *)
(* it returns for the source cut at the cursor.                            *)
C9_FailedAttemptNoEffect ==
    Parsed =>
        LET cut == Parse(SubSeq(input, 1, res.pos - 1))
        IN  /\ cut.ok
            /\ cut.pos = res.pos
            /\ cut.cond = res.cond

Operand(s, pos) == parse_in_parens(s, pos, Len(s) + 1)

RECURSIVE SameKindRun(_, _, _, _)
(* The operands of the longest run `kw operand kw operand ...` at pos,     *)
(* after those of acc, and where the run ends.                             *)
SameKindRun(s, pos, kw, acc) ==
    IF pos <= Len(s) /\ s[pos] = kw /\ Operand(s, pos + 1).ok
    THEN SameKindRun(s, Operand(s, pos + 1).pos, kw,
                     Append(acc, Operand(s, pos + 1).cond))
    ELSE [items |-> acc, pos |-> pos]

OtherKeyword(kw) == IF kw = "and" THEN "or" ELSE "and"

(* C6: operator mixing: the first keyword fixes the list kind; at a later  *)
(* keyword of the other kind parse stops without failing, the cursor on    *)
(* that keyword, and returns the list of the fixed kind with the operands  *)
(* read so far in source order.  "(a: 1) and (b: 2) or (c: 3)" gives the   *)
(* two-member And and leaves "or (c: 3)".                                  *)
C6_MixingStops ==
    /\ (pc \in {"parsed", "error"} /\ call = NoCall /\ input = Mixed) =>
           res = Ok(And(<<Declaration([name |-> "a", prefix |-> {}], <<"1">>),
                          Declaration([name |-> "b", prefix |-> {"None"}], <<"2">>)>>),
                    12)
    /\ (pc \in {"parsed", "error"} /\ call = NoCall /\ input # <<>>) =>
           LET first == Operand(input, 1)
               kw == input[first.pos]
               run == SameKindRun(input, first.pos, kw, <<first.cond>>)
           IN  (/\ first.ok
                /\ first.pos <= Len(input)
                /\ kw \in {"and", "or"}
                /\ Len(run.items) >= 2
                /\ run.pos <= Len(input)
                /\ input[run.pos] = OtherKeyword(kw))
               => res = Ok([tag |-> IF kw = "and" THEN "And" ELSE "Or",
                            items |-> run.items], run.pos)

C6_Witness ==
    /\ pc = "parsed"
    /\ input = Mixed
    /\ res.cond.tag = "And"
    /\ Len(res.cond.items) = 2
    /\ input[res.pos] = "or"


(* C3: idempotent combination: x.and(b) and x.or(b) with b structurally    *)
(* equal to x leave x unchanged, whatever the variant of x.                *)
C3_Idempotent ==
    (call.op \in {"and", "or"} /\ call.b = prev) => cond = prev

NoDuplicates(c) ==
    \A t \in Subtrees(c) :
        IsList(t) =>
            \A i, j \in 1..Len(t.items) : i < j => t.items[i] # t.items[j]

(* C4 as claimed: whatever the parser produced and whatever is passed to   *)
(* and()/or(), no And or Or list in the receiver holds two structurally    *)
(* equal members.                                                          *)
C4_NoDuplicates ==
    pc = "parsed" => NoDuplicates(cond)

(* C4 as amended: when neither the condition the parser produced nor any   *)
(* argument holds a list with two equal members, no list in the receiver   *)
(* does after any sequence of and()/or() calls.                            *)
C4_NoDuplicatesFromClean ==
    (/\ pc = "parsed"
     /\ NoDuplicates(res.cond)
     /\ \A b \in args : NoDuplicates(b))
    => NoDuplicates(cond)

(* and() met a member equal to its argument and left the list alone. *)
C4_Witness ==
    /\ pc = "parsed"
    /\ NoDuplicates(res.cond)
    /\ \A b \in args : NoDuplicates(b)
    /\ call.op = "and"
    /\ prev.tag = "And"
    /\ contains(prev.items, call.b)
    /\ cond = prev
    /\ n = 2

Printed(t) == IF t = cond THEN dest ELSE to_css(t)

(* Whether the printer is to put parentheses around child under parent:    *)
(* as C7 claims (rule "claimed": the operand of a Not always) or as        *)
(* amended (only a Not, And or Or operand).                                *)
Parenthesized(rule, child, parent) ==
    \/ child.tag = "Not"
    \/ child.tag = "And" /\ parent.tag # "And"
    \/ child.tag = "Or" /\ parent.tag # "Or"
    \/ rule = "claimed" /\ parent.tag = "Not"

Piece(rule, child, parent) ==
    IF Parenthesized(rule, child, parent)
    THEN <<"(">> \o to_css(child) \o <<")">>
    ELSE to_css(child)

RECURSIVE Joined(_, _, _)
Joined(rule, t, i) ==
    IF i > Len(t.items) THEN <<>>
    ELSE (IF i = 1 THEN <<>> ELSE <<IF t.tag = "And" THEN "and" ELSE "or">>)
         \o Piece(rule, t.items[i], t) \o Joined(rule, t, i + 1)

ParenthesesAsRuled(rule) ==
    pc = "printed" =>
        \A t \in Subtrees(cond) :
            /\ t.tag = "Not" => Printed(t) = <<"not">> \o Piece(rule, t.arg, t)
            /\ IsList(t) => Printed(t) = Joined(rule, t, 1)

(* C7 as claimed: no parentheses around an And in an And or an Or in an    *)
(* Or; parentheses around an And in an Or, an Or in an And, and around     *)
(* the operand of a Not, always.                                           *)
C7_Parenthesization == ParenthesesAsRuled("claimed")

(* C7 as amended: the operand of a Not is parenthesized when it is a Not,  *)
(* an And or an Or, and printed as it is when it is a Declaration, a       *)
(* Selector or an Unknown; the rest as claimed.                            *)
C7_ParenthesizationAmended == ParenthesesAsRuled("amended")

(* An Or and a Not inside an And, printed. *)
C7_Witness ==
    /\ pc = "printed"
    /\ cond.tag = "And"
    /\ \E i, j \in 1..Len(cond.items) :
           /\ cond.items[i].tag = "Or"
           /\ cond.items[j].tag = "Not"
           /\ cond.items[j].arg.tag = "Declaration"
    /\ Len(dest) > 0

RECURSIVE ClauseList(_, _, _, _)
ClauseList(ps, i, name, value) ==
    IF i > Len(ps) THEN <<>>
    ELSE (IF i = 1 THEN <<>> ELSE <<"or">>)
         \o <<"(", PrefixedName(ps[i], name), ":">> \o value \o <<")">>
         \o ClauseList(ps, i + 1, name, value)

(* C8: a declaration with one applicable prefix prints as the one clause   *)
(* (name:value); one with several prints as a parenthesized disjunction,   *)
(* one (prefixed-name:value) clause per prefix joined by `or`.             *)
C8_PrefixPrinting ==
    pc = "printed" =>
        \A d \in Subtrees(cond) :
            d.tag = "Declaration" =>
                LET ps == PrefixSeq(or_none(d.property_id.prefix), 1)
                    clauses == ClauseList(ps, 1, d.property_id.name, d.value)
                IN  Printed(d) = IF Len(ps) = 1
                                 THEN clauses
                                 ELSE <<"(">> \o clauses \o <<")">>

RECURSIVE Skeleton(_)
(* c without the prefix sets of its declarations. *)
Skeleton(c) ==
    CASE c.tag = "Not" -> [c EXCEPT !.arg = Skeleton(c.arg)]
      [] IsList(c) ->
           [c EXCEPT !.items = [i \in 1..Len(c.items) |-> Skeleton(c.items[i])]]
      [] c.tag = "Declaration" -> [c EXCEPT !.property_id.prefix = {}]
      [] OTHER -> c

RECURSIVE Declarations(_)
RECURSIVE DeclarationsOf(_, _)
(* The declarations of c, left to right. *)
Declarations(c) ==
    CASE c.tag = "Not" -> Declarations(c.arg)
      [] IsList(c) -> DeclarationsOf(c.items, 1)
      [] c.tag = "Declaration" -> <<c>>
      [] OTHER -> <<>>

DeclarationsOf(items, i) ==
    IF i > Len(items) THEN <<>>
    ELSE Declarations(items[i]) \o DeclarationsOf(items, i + 1)

(* Whether the expander is to resolve a declaration's prefixes again: as   *)
(* C10 claims (the set is empty or is the no-prefix marker) or as amended  *)
(* (the set is empty or holds the no-prefix marker).                       *)
Resolved(rule, prefix) ==
    IF rule = "claimed"
    THEN prefix \in {{}, {"None"}}
    ELSE prefix = {} \/ "None" \in prefix

ExpanderFrame(rule) ==
    call.op = "minify" =>
        /\ Skeleton(cond) = Skeleton(prev)
        /\ \A i \in 1..Len(Declarations(prev)) :
               LET old == Declarations(prev)[i].property_id
                   new == Declarations(cond)[i].property_id
               IN  new = IF Resolved(rule, old.prefix)
                         THEN PropertyIdSetPrefixes(old, call.targets)
                         ELSE old

(* C10 as claimed: the expander changes nothing but prefix sets; it        *)
(* resolves again every declaration whose prefix set is empty or is the    *)
(* no-prefix marker, and leaves one with a vendor prefix as it is.         *)
C10_ExpanderFrame == ExpanderFrame("claimed")

(* C10 as amended: it resolves again every declaration whose prefix set    *)
(* is empty or holds the no-prefix marker, alone or beside vendor          *)
(* prefixes, and leaves one whose set holds vendor prefixes only.          *)
C10_ExpanderFrameAmended == ExpanderFrame("amended")

(* Under an Or, one declaration resolved to prefixes and a -webkit- one    *)
(* left alone.                                                             *)
C10_Witness ==
    /\ call.op = "minify"
    /\ prev.tag = "Or"
    /\ cond # prev
    /\ \E i \in 1..Len(prev.items) :
           /\ prev.items[i].tag = "Declaration"
           /\ prev.items[i].property_id.prefix = {"WebKit"}
           /\ cond.items[i] = prev.items[i]
    /\ \E i \in 1..Len(prev.items) :
           /\ prev.items[i].tag = "Declaration"
           /\ prev.items[i].property_id.prefix = {"None"}
           /\ cond.items[i].property_id.prefix = {"WebKit", "Moz", "None"}


(* The source starts with a function or parenthesis block. *)
Opened == input # <<>> /\ IsOpen(input[1])

(* Its closing parenthesis is in the source. *)
Closed == BlockEnd(input, 1) <= Len(input)

(* No error token between its opening token and its end. *)
ErrorFree ==
    \A i \in 2..Len(input) : i < BlockEnd(input, 1) => input[i] # ErrorToken

(* The block is selector(...), or a parenthesis block holding a condition  *)
(* that fills it or a declaration.                                         *)
Recognized ==
    \/ input[1] = SelectorFn
    \/ /\ input[1] = OpenParen
       /\ LET m == BlockEnd(input, 1)
              c == parse(input, 2, m)
          IN  (c.ok /\ c.pos = m) \/ parse_declaration(input, 2, m).ok

InParensDone == pc \in {"in_parens", "error"}

============================================================================
